---- MODULE Spec2Model ----
(***************************************************************************)
(* pics2pdf: a React component that keeps an ordered list of photographs   *)
(* ({ file, rotation } objects), lets the user append, rotate and reorder  *)
(* them, and renders them into a paginated 2x2 jsPDF document.             *)
(*                                                                         *)
(* Arrays are JavaScript arrays: indices in the actions are the 0-based    *)
(* indices the handlers receive; a TLA+ sequence position is index + 1.    *)
(* Entry objects live on a heap: `images` holds references (entry ids) and *)
(* `rotation[id]` and `file[id]` are the fields of the object with that    *)
(* id, so an in-place write to an object is seen through every array that  *)
(* holds it.                                                               *)
(* Lengths on the page are kept in half millimetres, which makes the cell  *)
(* height 148.5 mm the integer 297.                                        *)
(***************************************************************************)
EXTENDS Integers, Sequences, FiniteSets, TLC

VARIABLES
    images,     \* the React state `images`: the current array of entry references
    rotation,   \* heap: rotation[id] is the .rotation field of entry object id
    file,       \* heap: file[id] is the .file field of entry object id, given by
                \* the width and height its image decodes to
    lastOp,     \* the most recent collection handler that ran, and its index argument
    run,        \* one record per generatePDF invocation: its closure and locals
    snapshot,   \* history: the collection (entry, rotation) as it was when run r started
    canvas,     \* a drawRotatedCanvas call: its arguments, the decoded image's size
                \* and, once img.onload has run, the size of the final canvas
    thrown      \* the exception the most recent state updater raised, or "none"

vars == <<images, rotation, file, lastOp, run, snapshot, canvas, thrown>>

----------------------------------------------------------------------------
(* Bounds of the model.                                                    *)

MaxEntries == 2         \* entries in the collection, specifications Spec and SpecOverlap
MaxCollection == 3      \* entries in the collection, specification SpecCollection
MaxLayoutEntries == 9   \* entries in the collection, specification SpecLayout
MaxFiles == 2           \* files delivered by one file-input change event
MaxRuns == 2            \* generatePDF invocations in one behaviour, specification SpecOverlap
SoloRuns == 1           \* generatePDF invocations in one behaviour, specification Spec
LayoutRuns == 1         \* generatePDF invocations in one behaviour, specification SpecLayout
MaxSide == 6            \* native width and height of a decoded image, in pixels
MaxTarget == 6          \* width and height of the target box, in pixels
MaxAnyEntries == 2      \* entries in the collection, specification SpecAnyIndex
MaxArray == 3           \* length of the array a move is applied to, SpecAnyIndex
AnyMargin == 2          \* how far outside 0..n-1 an index may lie, SpecAnyIndex

----------------------------------------------------------------------------
(* Helpers.                                                                *)

Min(a, b) == IF a < b THEN a ELSE b
Max(a, b) == IF a > b THEN a ELSE b

Rotations == {0, 90, 180, 270}

\* What reading a missing array element yields.
Undefined == 0

----------------------------------------------------------------------------
(* Array.prototype.splice, as moveItem uses it.                            *)

\* The start index splice works from: negative counts from the end, and the
\* result is clamped to 0..len.
RelativeStart(len, start) ==
    IF start < 0 THEN Max(len + start, 0) ELSE Min(start, len)

\* The number of elements splice(start, count) removes.
DeleteCount(len, start, count) ==
    Min(Max(count, 0), len - RelativeStart(len, start))

\* The elements arr.splice(start, count) returns (those it removed).
SpliceRemoved(arr, start, count) ==
    LET s == RelativeStart(Len(arr), start)
        d == DeleteCount(Len(arr), start, count)
    IN  SubSeq(arr, s + 1, s + d)

\* arr after arr.splice(start, count).
SpliceDelete(arr, start, count) ==
    LET s == RelativeStart(Len(arr), start)
        d == DeleteCount(Len(arr), start, count)
    IN  SubSeq(arr, 1, s) \o SubSeq(arr, s + d + 1, Len(arr))

\* arr after arr.splice(start, 0, item).
SpliceInsert(arr, start, item) ==
    LET s == RelativeStart(Len(arr), start)
    IN  SubSeq(arr, 1, s) \o <<item>> \o SubSeq(arr, s + 1, Len(arr))

\* moveItem without the bounds check on toIndex.
moveItemUnchecked(arr, fromIndex, toIndex) ==
    LET removed == SpliceRemoved(arr, fromIndex, 1)
        item    == IF Len(removed) = 0 THEN Undefined ELSE removed[1]
        newArr  == SpliceDelete(arr, fromIndex, 1)
    IN  SpliceInsert(newArr, toIndex, item)

\* moveItem that inserts the item without removing it first.
moveItemNoRemove(arr, fromIndex, toIndex) ==
    IF toIndex < 0 \/ toIndex >= Len(arr)
    THEN arr
    ELSE SpliceInsert(arr, toIndex, arr[fromIndex + 1])

\* moveItem that puts the item back where it was taken from.
moveItemSamePlace(arr, fromIndex, toIndex) ==
    IF toIndex < 0 \/ toIndex >= Len(arr)
    THEN arr
    ELSE LET removed == SpliceRemoved(arr, fromIndex, 1)
             item    == IF Len(removed) = 0 THEN Undefined ELSE removed[1]
             newArr  == SpliceDelete(arr, fromIndex, 1)
         IN  SpliceInsert(newArr, fromIndex, item)

moveItem(arr, fromIndex, toIndex) ==
    IF toIndex < 0 \/ toIndex >= Len(arr)
    THEN arr
    ELSE LET removed == SpliceRemoved(arr, fromIndex, 1)
             item    == IF Len(removed) = 0 THEN Undefined ELSE removed[1]
             newArr  == SpliceDelete(arr, fromIndex, 1)
         IN  SpliceInsert(newArr, toIndex, item)

----------------------------------------------------------------------------
(* The collection handlers.                                                *)

\* rotateImage's new value without the wrap-around.
nextRotationNoWrap(r) == r + 90

\* The value rotateImage stores: (rotation + 90) % 360.
nextRotation(r) == (r + 90) % 360

NoOp == [op |-> "none", index |-> 0]

\* The files a user picks, by the size their image decodes to.
Landscape == [width |-> 3, height |-> 2]
Portrait == [width |-> 2, height |-> 3]
Photos == {Landscape, Portrait}
OnePhoto == {Landscape}

\* handleFileChange: the k selected files become k new { file, rotation: 0 }
\* objects, appended to a copy of the array.
handleFileChange(k, maxN, photos) ==
    /\ Len(images) + k <= maxN
    /\ images' = images \o [j \in 1..k |-> Len(rotation) + j]
    /\ rotation' = rotation \o [j \in 1..k |-> 0]
    /\ \E newFiles \in [1..k -> photos] : file' = file \o newFiles
    /\ thrown' = "none"
    /\ lastOp' = [op |-> "append", index |-> k]
    /\ UNCHANGED <<run, snapshot, canvas>>

\* rotateImage(index), index one of the rendered list items: the array is
\* copied, the entry object it shares with every other array is written in
\* place.
rotateImage(index) ==
    /\ index \in 0..(Len(images) - 1)
    /\ rotation' = [rotation EXCEPT ![images[index + 1]] = nextRotation(@)]
    /\ images' = images
    /\ thrown' = "none"
    /\ lastOp' = [op |-> "rotate", index |-> index]
    /\ UNCHANGED <<file, run, snapshot, canvas>>

\* moveUp(index), index one of the rendered list items.
moveUp(index) ==
    /\ index \in 0..(Len(images) - 1)
    /\ images' = moveItem(images, index, index - 1)
    /\ thrown' = "none"
    /\ lastOp' = [op |-> "moveUp", index |-> index]
    /\ UNCHANGED <<file, rotation, run, snapshot, canvas>>

\* moveDown(index), index one of the rendered list items.
moveDown(index) ==
    /\ index \in 0..(Len(images) - 1)
    /\ images' = moveItem(images, index, index + 1)
    /\ thrown' = "none"
    /\ lastOp' = [op |-> "moveDown", index |-> index]
    /\ UNCHANGED <<file, rotation, run, snapshot, canvas>>

----------------------------------------------------------------------------
(* The state updaters of the collection handlers applied to any integer    *)
(* index, as a caller other than the rendered list may pass it.            *)

\* arr[index]: the element, or undefined outside 0..arr.length-1.
elementAt(arr, index) ==
    IF index \in 0..(Len(arr) - 1) THEN arr[index + 1] ELSE Undefined

\* The indices tried on an array.
IndexRange(arr) == (0 - AnyMargin)..(Len(arr) - 1 + AnyMargin)

\* rotateImage(index): `updated[index].rotation` on undefined throws a
\* TypeError before anything is written.
rotateImageAt(index) ==
    /\ index \in IndexRange(images)
    /\ LET entry == elementAt(images, index)
       IN  IF entry = Undefined
           THEN /\ thrown' = "TypeError"
                /\ UNCHANGED <<images, rotation>>
           ELSE /\ thrown' = "none"
                /\ rotation' = [rotation EXCEPT ![entry] = nextRotation(@)]
                /\ images' = images
    /\ lastOp' = [op |-> "rotate", index |-> index]
    /\ UNCHANGED <<file, run, snapshot, canvas>>

\* moveUp(index) on an array of fewer than maxLen elements.
moveUpAt(index, maxLen) ==
    /\ Len(images) < maxLen
    /\ index \in IndexRange(images)
    /\ images' = moveItem(images, index, index - 1)
    /\ thrown' = "none"
    /\ lastOp' = [op |-> "moveUp", index |-> index]
    /\ UNCHANGED <<file, rotation, run, snapshot, canvas>>

\* moveDown(index) on an array of fewer than maxLen elements.
moveDownAt(index, maxLen) ==
    /\ Len(images) < maxLen
    /\ index \in IndexRange(images)
    /\ images' = moveItem(images, index, index + 1)
    /\ thrown' = "none"
    /\ lastOp' = [op |-> "moveDown", index |-> index]
    /\ UNCHANGED <<file, rotation, run, snapshot, canvas>>

----------------------------------------------------------------------------
(* generatePDF: the page geometry and the per-entry arithmetic.            *)

pageWidth == 210
pageHeight == 297
cols == 2
rows == 2
imagesPerPage == cols * rows

\* Cell size in half millimetres: 105 mm and 148.5 mm.
cellWidthMm == (2 * pageWidth) \div cols
cellHeightMm == (2 * pageHeight) \div rows

\* The empty-input test that never fires.
noImagesNever(arr) == Len(arr) < 0

\* images.length === 0
noImages(arr) == Len(arr) = 0

\* Math.floor(indexInPage / cols) and indexInPage % cols
cellRow(indexInPage) == indexInPage \div cols
cellCol(indexInPage) == indexInPage % cols

\* The page test without the "still have more left" part.
pageFilledAlways(indexInPage, i, n) == indexInPage = imagesPerPage

\* indexInPage === imagesPerPage && i < images.length - 1, evaluated after
\* indexInPage++
pageFilled(indexInPage, i, n) == indexInPage = imagesPerPage /\ i < n - 1

\* The counter carried over to the new page instead of reset.
indexAfterPlacingNoReset(counted, filled) == counted

\* indexInPage after indexInPage++ and the page test: reset to 0 when a page
\* was added.
indexAfterPlacing(counted, filled) == IF filled THEN 0 ELSE counted

\* The loop index advanced past the entry that follows.
nextIndexSkips(i) == i + 2

\* i++ of the for loop over images.
nextIndex(i) == i + 1

----------------------------------------------------------------------------
(* drawRotatedCanvas: the rotation-aware fit of an image into a target box. *)
(* The code computes in IEEE 754 doubles: ratio = cw / ch is the quotient   *)
(* rounded to 53 significant bits, and finalWidthPx = th * ratio and        *)
(* finalHeightPx = tw / ratio are rounded once more before Math.round.      *)
(* With sides far below 2^26 the two roundings can change Math.round's      *)
(* result only where the exact value lies halfway between two integers;     *)
(* there the sign and size of the first rounding error decide.              *)

\* Math.round of the exact fraction num / den >= 0: floor(num/den + 1/2).
MathRound(num, den) == (2 * num + den) \div (2 * den)

RECURSIVE Pow2(_)
Pow2(n) == IF n = 0 THEN 1 ELSE 2 * Pow2(n - 1)

\* 2^n modulo m.
RECURSIVE Pow2Mod(_, _)
Pow2Mod(n, m) == IF n = 0 THEN 1 % m ELSE (2 * Pow2Mod(n - 1, m)) % m

\* The binary exponent of the double num / den: floor(log2(num / den)).
RECURSIVE Exponent(_, _)
Exponent(num, den) ==
    IF num >= 2 * den THEN Exponent(num, 2 * den) + 1
    ELSE IF num < den THEN Exponent(2 * num, den) - 1
    ELSE 0

\* The double cw / ch is (cw * 2^s + d) / (ch * 2^s) with s = 52 - Exponent
\* and d the rounding error this yields, scaled by ch * 2^s: 0 when the
\* quotient is a double, negative when it was rounded down.
quotientError(cw, ch) ==
    LET s   == 52 - Exponent(cw, ch)
        rem == ((cw % ch) * Pow2Mod(s, ch)) % ch
    IN  IF rem = 0 THEN 0 ELSE IF 2 * rem < ch THEN 0 - rem ELSE ch - rem

\* a <= b * 2^x for integers a, b and an exponent x of either sign.
AtMostScaled(a, b, x) ==
    IF x >= 0 THEN a <= b * Pow2(x) ELSE a * Pow2(0 - x) <= b

\* num / den is k + 1/2 for an integer k.
Halfway(num, den) == (2 * num) % den = 0 /\ ((2 * num) \div den) % 2 = 1

\* For a double at the halfway value k + 1/2 of a result computed from
\* ratio = cw / ch: the exponent that takes half the distance to the next
\* double below k + 1/2 to the scale of quotientError.
halfGap(k, cw, ch) ==
    Exponent(2 * k + 1, 2) - Exponent(cw, ch) - 1 - (IF k = 0 THEN 1 ELSE 0)

\* Math.round(t * ratio), ratio = cw / ch. At a halfway value the double
\* product is k + 1/2 or more unless ratio was rounded down by more than the
\* second rounding gives back.
roundTimesRatio(t, cw, ch) ==
    IF ~Halfway(t * cw, ch) THEN MathRound(t * cw, ch)
    ELSE LET k == (t * cw) \div ch
             d == quotientError(cw, ch)
         IN  IF d >= 0 \/ AtMostScaled(t * (0 - d), ch, halfGap(k, cw, ch))
             THEN k + 1 ELSE k

\* Math.round(t / ratio), ratio = cw / ch. At a halfway value the double
\* quotient is k + 1/2 or more unless ratio was rounded up by more than the
\* second rounding gives back.
roundOverRatio(t, cw, ch) ==
    IF ~Halfway(t * ch, cw) THEN MathRound(t * ch, cw)
    ELSE LET k == (t * ch) \div cw
             d == quotientError(cw, ch)
         IN  IF d <= 0 \/ AtMostScaled(t * ch * d, cw * cw, halfGap(k, cw, ch))
             THEN k + 1 ELSE k

\* rotation === 90 || rotation === 270
rotate90or270(rot) == rot = 90 \/ rot = 270

tmpCanvasWidth(w, h, rot) == IF rotate90or270(rot) THEN h ELSE w
tmpCanvasHeight(w, h, rot) == IF rotate90or270(rot) THEN w ELSE h

\* The fit test the wrong way round.
relativelyWiderFlipped(cw, ch, tw, th) == cw * th < tw * ch

\* ratio > targetRatio, with ratio = cw / ch and targetRatio = tw / th: two
\* distinct fractions of these sizes stay distinct and in order as doubles.
relativelyWider(cw, ch, tw, th) == cw * th > tw * ch

\* finalCanvas.width = Math.round(finalWidthPx)
finalCanvasWidth(cw, ch, tw, th) ==
    IF relativelyWider(cw, ch, tw, th) THEN tw ELSE roundTimesRatio(th, cw, ch)

\* finalCanvas.height = Math.round(finalHeightPx)
finalCanvasHeight(cw, ch, tw, th) ==
    IF relativelyWider(cw, ch, tw, th) THEN roundOverRatio(tw, cw, ch) ELSE th

\* const drawW, drawH: the sizes the offset of drawImage is taken from.
drawW(w, h, rot) == IF rotate90or270(rot) THEN h ELSE w
drawH(w, h, rot) == IF rotate90or270(rot) THEN w ELSE h

NoRect == [left |-> 0, top |-> 0, right |-> 0, bottom |-> 0]

\* ctx.rotate by a quarter-turn multiple, on a rectangle given in the
\* context's own coordinates: (x, y) goes to (x cos - y sin, x sin + y cos).
Turned(rect, rot) ==
    IF rot = 90 THEN [left |-> 0 - rect.bottom, top |-> rect.left,
                      right |-> 0 - rect.top, bottom |-> rect.right]
    ELSE IF rot = 180 THEN [left |-> 0 - rect.right, top |-> 0 - rect.bottom,
                            right |-> 0 - rect.left, bottom |-> 0 - rect.top]
    ELSE IF rot = 270 THEN [left |-> rect.top, top |-> 0 - rect.right,
                            right |-> rect.bottom, bottom |-> 0 - rect.left]
    ELSE rect

\* The part of the plane the rotation step paints, in half pixels of the
\* intermediate canvas (whose own area is 0..2*cw by 0..2*ch):
\* translate(cw / 2, ch / 2), rotate, drawImage(img, -drawW / 2, -drawH / 2),
\* where drawImage paints the image at its native w x h.
DrawnRect(w, h, rot) ==
    LET own    == [left |-> 0 - drawW(w, h, rot), top |-> 0 - drawH(w, h, rot),
                   right |-> 2 * w - drawW(w, h, rot),
                   bottom |-> 2 * h - drawH(w, h, rot)]
        turned == Turned(own, rot)
        cw     == tmpCanvasWidth(w, h, rot)
        ch     == tmpCanvasHeight(w, h, rot)
    IN  [left |-> turned.left + cw, top |-> turned.top + ch,
         right |-> turned.right + cw, bottom |-> turned.bottom + ch]

NoCanvas == [pending |-> FALSE, w |-> 0, h |-> 0, rotation |-> 0,
             targetWidthPx |-> 0, targetHeightPx |-> 0, width |-> 0, height |-> 0,
             drawn |-> NoRect]

\* A call drawRotatedCanvas(base64, rotation, targetWidthPx, targetHeightPx)
\* whose image decodes to w x h pixels, before img.onload.
CanvasCalls ==
    [pending : {TRUE}, w : 1..MaxSide, h : 1..MaxSide, rotation : Rotations,
     targetWidthPx : 1..MaxTarget, targetHeightPx : 1..MaxTarget,
     width : {0}, height : {0}, drawn : {NoRect}]

\* Calls on sizes where the exact fitted side lies halfway between two
\* pixels, so that the result hangs on the rounding of the doubles.
HalfwaySizes ==
    {<<15, 22, 8, 11>>, <<22, 15, 8, 11>>, <<18, 7, 9, 4>>, <<7, 18, 9, 4>>}

HalfwayCalls ==
    {[pending |-> TRUE, w |-> t[1], h |-> t[2], rotation |-> rot,
      targetWidthPx |-> t[3], targetHeightPx |-> t[4],
      width |-> 0, height |-> 0, drawn |-> NoRect] :
        t \in HalfwaySizes, rot \in Rotations}

\* img.onload of drawRotatedCanvas: the intermediate canvas takes the image's
\* size with the axes swapped for 90 and 270, and the final canvas is that
\* size fitted into the target box.
onloadCanvas(call) ==
    LET cw == tmpCanvasWidth(call.w, call.h, call.rotation)
        ch == tmpCanvasHeight(call.w, call.h, call.rotation)
    IN  [call EXCEPT
            !.pending = FALSE,
            !.drawn = DrawnRect(call.w, call.h, call.rotation),
            !.width = finalCanvasWidth(cw, ch, call.targetWidthPx,
                                       call.targetHeightPx),
            !.height = finalCanvasHeight(cw, ch, call.targetWidthPx,
                                         call.targetHeightPx)]

\* A call of drawRotatedCanvas on its own, outside a generation run, up to
\* the end of its img.onload.
drawRotatedCanvas ==
    /\ canvas.pending
    /\ canvas' = onloadCanvas(canvas)
    /\ UNCHANGED <<file, images, rotation, lastOp, run, snapshot, thrown>>

----------------------------------------------------------------------------
(* The cell as generatePDF hands it to drawRotatedCanvas.                  *)

dpi == 150

\* mmToPx: Math.round(mm * (dpi / 25.4)), for a length given in half
\* millimetres.
mmToPx(halfMm, density) == MathRound(halfMm * density * 10, 2 * 254)

cellWidthPx == mmToPx(cellWidthMm, dpi)
cellHeightPx == mmToPx(cellHeightMm, dpi)

\* The calls generatePDF makes: drawRotatedCanvas(base64, rotation,
\* cellWidthPx, cellHeightPx), on an image that decodes to w x h pixels.
\* The call generatePDF makes for an entry: drawRotatedCanvas(base64,
\* rotation, cellWidthPx, cellHeightPx) on the entry's decoded file.
cellCall(photo, rot) ==
    [pending |-> TRUE, w |-> photo.width, h |-> photo.height, rotation |-> rot,
     targetWidthPx |-> cellWidthPx, targetHeightPx |-> cellHeightPx,
     width |-> 0, height |-> 0, drawn |-> NoRect]

CellCalls ==
    {cellCall([width |-> w, height |-> h], rot) :
        w \in 1..MaxSide, h \in 1..MaxSide, rot \in Rotations}

\* Files whose exact fitted side in the cell lies halfway between two pixels.
HalfwayPhotos ==
    {[width |-> 29, height |-> 1754], [width |-> 1754, height |-> 29],
     [width |-> 40, height |-> 29], [width |-> 29, height |-> 40]}

HalfwayCellCalls == {cellCall(photo, rot) : photo \in HalfwayPhotos, rot \in Rotations}

----------------------------------------------------------------------------
(* generatePDF: a generation run.                                          *)

NoPdf == [pages |-> 0, items |-> <<>>, saved |-> FALSE]

\* new jsPDF(...): a document with its first page and nothing on it.
NewPdf == [pages |-> 1, items |-> <<>>, saved |-> FALSE]

IdleRun == [pc |-> "idle", images |-> <<>>, i |-> 0, indexInPage |-> 0,
            rotation |-> 0, pdf |-> NoPdf]

\* The collection as a list of (entry, rotation) values.
Collection(arr, heap) ==
    [k \in 1..Len(arr) |-> [entry |-> arr[k], rotation |-> heap[arr[k]]]]

\* A click on "Generate PDF": invocation r of generatePDF, up to its first
\* await. The closure holds the array `images` of the render the click came
\* from; no handler writes to an array in place, so the run keeps that array
\* by value. `const { file, rotation } = images[0]` reads the entry object.
\* A for loop with nothing to iterate over falls through to pdf.save.
generatePDF(r) ==
    /\ run[r].pc = "idle"
    /\ \A q \in 1..(r - 1) : run[q].pc # "idle"
    /\ IF noImages(images)
       THEN run' = [run EXCEPT ![r] = [IdleRun EXCEPT !.pc = "alerted"]]
       ELSE run' = [run EXCEPT ![r] =
                [pc |-> IF Len(images) > 0 THEN "fileToDataURL" ELSE "saved",
                 images |-> images, i |-> 0, indexInPage |-> 0,
                 rotation |-> IF Len(images) > 0 THEN rotation[images[1]] ELSE 0,
                 pdf |-> [NewPdf EXCEPT !.saved = (Len(images) = 0)]]]
    /\ snapshot' = [snapshot EXCEPT ![r] = Collection(images, rotation)]
    /\ UNCHANGED <<file, images, rotation, lastOp, canvas, thrown>>

\* reader.onload resolves fileToDataURL; the run goes on to drawRotatedCanvas
\* with the rotation it read before the await.
readerOnload(r) ==
    /\ run[r].pc = "fileToDataURL"
    /\ run' = [run EXCEPT ![r].pc = "drawRotatedCanvas"]
    /\ UNCHANGED <<file, images, rotation, lastOp, snapshot, canvas, thrown>>

\* img.onload inside run r: the handler of drawRotatedCanvas sizes and paints
\* the canvases and resolves, and the run goes on in the same task: it places
\* the image, advances the counters and either reads the next entry and
\* suspends again or saves.
imgOnload(r) ==
    /\ run[r].pc = "drawRotatedCanvas"
    /\ canvas' = onloadCanvas(cellCall(file[run[r].images[run[r].i + 1]],
                                       run[r].rotation))
    /\ LET me      == run[r]
           n       == Len(me.images)
           x       == cellCol(me.indexInPage) * cellWidthMm
           y       == cellRow(me.indexInPage) * cellHeightMm
           item    == [entry |-> me.images[me.i + 1], rotation |-> me.rotation,
                       page |-> me.pdf.pages - 1, x |-> x, y |-> y,
                       width |-> cellWidthMm, height |-> cellHeightMm]
           counted == me.indexInPage + 1
           filled  == pageFilled(counted, me.i, n)
           pages   == IF filled THEN me.pdf.pages + 1 ELSE me.pdf.pages
           nextI   == nextIndex(me.i)
           more    == nextI < n
       IN  run' = [run EXCEPT ![r] =
                [pc |-> IF more THEN "fileToDataURL" ELSE "saved",
                 images |-> me.images,
                 i |-> nextI,
                 indexInPage |-> indexAfterPlacing(counted, filled),
                 rotation |-> IF more THEN rotation[me.images[nextI + 1]]
                                      ELSE me.rotation,
                 pdf |-> [pages |-> pages,
                          items |-> Append(me.pdf.items, item),
                          saved |-> ~more]]]
    /\ UNCHANGED <<file, images, rotation, lastOp, snapshot, thrown>>

\* reader.onerror rejects fileToDataURL: the await throws, nothing in
\* generatePDF catches it, and the run ends with its promise rejected and no
\* document saved.
readerOnerror(r) ==
    /\ run[r].pc = "fileToDataURL"
    /\ run' = [run EXCEPT ![r].pc = "rejected"]
    /\ UNCHANGED <<file, images, rotation, lastOp, snapshot, canvas, thrown>>

\* The image fails to decode: img fires its error event. drawRotatedCanvas
\* set img.onload only and its promise takes no reject, so the promise the
\* run awaits stays unsettled.
imgOnerror(r) ==
    /\ run[r].pc = "drawRotatedCanvas"
    /\ run' = [run EXCEPT ![r].pc = "unsettled"]
    /\ UNCHANGED <<file, images, rotation, lastOp, snapshot, canvas, thrown>>

\* The events that can resume run r.
RunStep(r) ==
    readerOnload(r) \/ readerOnerror(r) \/ imgOnload(r) \/ imgOnerror(r)

----------------------------------------------------------------------------
(* State after construction.                                               *)

Init ==
    /\ images = <<>>
    /\ rotation = <<>>
    /\ file = <<>>
    /\ lastOp = NoOp
    /\ thrown = "none"
    /\ run = [r \in 1..MaxRuns |-> IdleRun]
    /\ snapshot = [r \in 1..MaxRuns |-> <<>>]
    /\ canvas = NoCanvas

----------------------------------------------------------------------------
(* Specifications.                                                         *)

\* The whole component: the collection handlers interleaved with the steps
\* of a generation run.
Next ==
    \/ \E k \in 0..MaxFiles : handleFileChange(k, MaxEntries, Photos)
    \/ \E index \in 0..(MaxEntries - 1) : rotateImage(index)
    \/ \E index \in 0..(MaxEntries - 1) : moveUp(index)
    \/ \E index \in 0..(MaxEntries - 1) : moveDown(index)
    \/ \E r \in 1..SoloRuns : generatePDF(r)
    \/ \E r \in 1..SoloRuns : readerOnload(r)
    \/ \E r \in 1..SoloRuns : imgOnload(r)

Spec == Init /\ [][Next]_vars

\* Repeated clicks on "Generate PDF": appends and the steps of up to MaxRuns
\* generation runs.
NextOverlap ==
    \/ \E k \in 0..MaxFiles : handleFileChange(k, MaxEntries, Photos)
    \/ \E r \in 1..MaxRuns : generatePDF(r)
    \/ \E r \in 1..MaxRuns : readerOnload(r)
    \/ \E r \in 1..MaxRuns : imgOnload(r)

SpecOverlap == Init /\ [][NextOverlap]_vars

\* The collection handlers alone, on a longer list.
NextCollection ==
    \/ \E k \in 0..MaxFiles : handleFileChange(k, MaxCollection, OnePhoto)
    \/ \E index \in 0..(MaxCollection - 1) : rotateImage(index)
    \/ \E index \in 0..(MaxCollection - 1) : moveUp(index)
    \/ \E index \in 0..(MaxCollection - 1) : moveDown(index)

SpecCollection == Init /\ [][NextCollection]_vars

\* Appends and generation runs on lists long enough to fill several pages.
NextLayout ==
    \/ \E k \in 0..MaxFiles : handleFileChange(k, MaxLayoutEntries, OnePhoto)
    \/ \E r \in 1..LayoutRuns : generatePDF(r)
    \/ \E r \in 1..LayoutRuns : readerOnload(r)
    \/ \E r \in 1..LayoutRuns : imgOnload(r)

SpecLayout == Init /\ [][NextLayout]_vars

\* The collection handlers called with indices inside and outside 0..n-1.
NextAnyIndex ==
    \/ \E k \in 0..MaxFiles : handleFileChange(k, MaxAnyEntries, OnePhoto)
    \/ \E index \in (0 - AnyMargin)..(MaxArray + AnyMargin) : rotateImageAt(index)
    \/ \E index \in (0 - AnyMargin)..(MaxArray + AnyMargin) : moveUpAt(index, MaxArray)
    \/ \E index \in (0 - AnyMargin)..(MaxArray + AnyMargin) : moveDownAt(index, MaxArray)

SpecAnyIndex == Init /\ [][NextAnyIndex]_vars

\* Generation runs on files that may fail to be read or decoded.
NextFailure ==
    \/ \E k \in 0..MaxFiles : handleFileChange(k, MaxEntries, Photos)
    \/ \E r \in 1..MaxRuns : generatePDF(r)
    \/ \E r \in 1..MaxRuns : readerOnload(r)
    \/ \E r \in 1..MaxRuns : readerOnerror(r)
    \/ \E r \in 1..MaxRuns : imgOnload(r)
    \/ \E r \in 1..MaxRuns : imgOnerror(r)

SpecFailure == Init /\ [][NextFailure]_vars

\* drawRotatedCanvas on every image size, rotation and target box within the
\* bounds.
InitCompose ==
    /\ images = <<>>
    /\ rotation = <<>>
    /\ file = <<>>
    /\ lastOp = NoOp
    /\ thrown = "none"
    /\ run = [r \in 1..MaxRuns |-> IdleRun]
    /\ snapshot = [r \in 1..MaxRuns |-> <<>>]
    /\ canvas \in CanvasCalls \cup HalfwayCalls

NextCompose == drawRotatedCanvas

SpecCompose == InitCompose /\ [][NextCompose]_vars

\* drawRotatedCanvas as generatePDF calls it, on every image size and
\* rotation within the bounds; the result goes to pdf.addImage with the cell
\* as its region.
InitCell ==
    /\ images = <<>>
    /\ rotation = <<>>
    /\ file = <<>>
    /\ lastOp = NoOp
    /\ thrown = "none"
    /\ run = [r \in 1..MaxRuns |-> IdleRun]
    /\ snapshot = [r \in 1..MaxRuns |-> <<>>]
    /\ canvas \in CellCalls \cup HalfwayCellCalls

SpecCell == InitCell /\ [][NextCompose]_vars

----------------------------------------------------------------------------
(* Properties.                                                             *)

Suspended(r) == run[r].pc \in {"fileToDataURL", "drawRotatedCanvas"}

\* C1: every image a run has placed is the entry that stood at that position
\* of the collection when the run started, with the rotation the entry had at
\* that moment, whatever rotate, moveUp, moveDown or append did in between.
C1_RunUsesCollectionAtStart ==
    \A r \in 1..MaxRuns :
        \A k \in 1..Len(run[r].pdf.items) :
            /\ run[r].pdf.items[k].entry = snapshot[r][k].entry
            /\ run[r].pdf.items[k].rotation = snapshot[r][k].rotation

\* C2: at most one generation run is between its start and pdf.save at any
\* time.
C2_SingleFlight ==
    Cardinality({r \in 1..MaxRuns : Suspended(r)}) <= 1

\* C3: a run that has saved its document on a list of n >= 1 entries made
\* exactly ceil(n / (rows * cols)) pages, with no trailing empty page, and
\* placed entry i (0-based) as the i-th image, on page floor(i / (rows * cols)).
C3_PagesAndMembership ==
    \A r \in 1..MaxRuns :
        run[r].pc = "saved" =>
            LET n     == Len(run[r].images)
                items == run[r].pdf.items
                cap   == rows * cols
            IN  /\ n >= 1
                /\ run[r].pdf.pages = (n + cap - 1) \div cap
                /\ Len(items) = n
                /\ \A k \in 1..n :
                       /\ items[k].entry = run[r].images[k]
                       /\ items[k].page = (k - 1) \div cap
                /\ run[r].pdf.pages = items[n].page + 1

C3_Witness ==
    \E r \in 1..MaxRuns :
        /\ run[r].pc = "saved"
        /\ Len(run[r].images) = 2 * rows * cols
        /\ run[r].pdf.pages = 2

\* C4: the running counter places the i-th image (0-based) at the rectangle
\* of the arithmetic planner: indexOnPage = i mod (rows * cols), row =
\* floor(indexOnPage / cols), col = indexOnPage mod cols, x = col * cellWidth,
\* y = row * cellHeight, of size cellWidth x cellHeight; on 5 entries that is
\* (0,0), (105,0), (0,148.5), (105,148.5) on page 0 and (0,0) on page 1
\* (written here in half millimetres).
C4_CounterMatchesPlanner ==
    \A r \in 1..MaxRuns :
        LET items == run[r].pdf.items
        IN  /\ \A k \in 1..Len(items) :
                   LET indexOnPage == (k - 1) % (rows * cols)
                       row == indexOnPage \div cols
                       col == indexOnPage % cols
                   IN  /\ items[k].x = col * ((2 * pageWidth) \div cols)
                       /\ items[k].y = row * ((2 * pageHeight) \div rows)
                       /\ items[k].width = (2 * pageWidth) \div cols
                       /\ items[k].height = (2 * pageHeight) \div rows
            /\ Len(items) = 5 =>
                   /\ [k \in 1..5 |-> <<items[k].page, items[k].x, items[k].y>>]
                        = << <<0, 0, 0>>, <<0, 210, 0>>, <<0, 0, 297>>,
                             <<0, 210, 297>>, <<1, 0, 0>> >>
                   /\ \A k \in 1..5 : items[k].width = 210 /\ items[k].height = 297

C4_Witness ==
    \E r \in 1..MaxRuns :
        /\ run[r].pc = "saved"
        /\ Len(run[r].images) = 5
        /\ Len(run[r].pdf.items) = 5

\* C5: generatePDF invoked on an empty list raises the alert and ends: no
\* document is created, no image placed, nothing saved, and the collection is
\* left as it was.
C5_EmptyInputReported ==
    /\ [](\A r \in 1..MaxRuns : run[r].pc = "alerted" => run[r].pdf = NoPdf)
    /\ [][\A r \in 1..MaxRuns :
            (run[r].pc = "idle" /\ run'[r].pc # "idle" /\ Len(images) = 0) =>
                /\ run'[r].pc = "alerted"
                /\ run'[r].pdf = NoPdf
                /\ images' = images
                /\ rotation' = rotation]_vars

C5_Witness ==
    \E r \in 1..MaxRuns : run[r].pc = "alerted" /\ Len(images) = 0

\* The list as (entry, rotation) pairs with the items at 0-based positions
\* a and b exchanged.
Exchanged(arr, a, b) ==
    [k \in 1..Len(arr) |->
        IF k = a + 1 THEN arr[b + 1] ELSE IF k = b + 1 THEN arr[a + 1] ELSE arr[k]]

\* C6: moveUp(0) and moveDown(n - 1) leave the list of n >= 1 entries, order
\* and rotations, exactly as it was.
C6_MoveAtEndsIsNoOp ==
    [][( /\ Len(images) >= 1
         /\ \/ lastOp' = [op |-> "moveUp", index |-> 0]
            \/ lastOp' = [op |-> "moveDown", index |-> Len(images) - 1] )
       => /\ images' = images
          /\ rotation' = rotation
          /\ Collection(images', rotation') = Collection(images, rotation)]_vars

C6_Witness ==
    /\ Len(images) >= 3
    /\ lastOp = [op |-> "moveUp", index |-> 0]
    /\ images # [k \in 1..Len(images) |-> k]

\* C7: moveUp(i) for 0 < i <= n - 1 exchanges the entries at positions i - 1
\* and i, moveDown(i) for 0 <= i < n - 1 exchanges those at i and i + 1; all
\* other positions keep their entry and every entry keeps its rotation.
C7_MoveExchangesNeighbours ==
    [][\A i \in 0..(Len(images) - 1) :
          /\ (lastOp' = [op |-> "moveUp", index |-> i] /\ i > 0)
                => /\ images' = Exchanged(images, i - 1, i)
                   /\ rotation' = rotation
          /\ (lastOp' = [op |-> "moveDown", index |-> i] /\ i < Len(images) - 1)
                => /\ images' = Exchanged(images, i, i + 1)
                   /\ rotation' = rotation]_vars

C7_Witness ==
    /\ Len(images) >= 3
    /\ lastOp = [op |-> "moveDown", index |-> 0]
    /\ images[1] = 2 /\ images[2] = 1 /\ images[3] = 3

\* C8: after any sequence of append, rotate, moveUp and moveDown every entry
\* has a rotation among 0, 90, 180, 270, and the list holds every appended
\* entry exactly once (positions 0..n-1 filled, no gap, no duplicate).
C8_CollectionInvariant ==
    /\ \A k \in 1..Len(images) :
           /\ images[k] \in 1..Len(rotation)
           /\ rotation[images[k]] \in {0, 90, 180, 270}
    /\ \A j, k \in 1..Len(images) : j # k => images[j] # images[k]
    /\ Len(images) = Len(rotation)

C8_Witness ==
    /\ Len(images) >= 3
    /\ images[1] = 3
    /\ rotation[3] = 270
    /\ lastOp.op = "moveUp"

\* C9: one rotate adds 90 modulo 360 to the entry's rotation and changes no
\* other entry; four rotates of the same entry bring its rotation back, from
\* each of 0, 90, 180 and 270.
C9_RotateFourTimesIsIdentity ==
    [][\A i \in 0..(Len(images) - 1) :
          lastOp' = [op |-> "rotate", index |-> i] =>
              LET e  == images[i + 1]
                  r0 == rotation[e]
                  r1 == rotation'[e]
                  r2 == nextRotation(r1)
                  r3 == nextRotation(r2)
                  r4 == nextRotation(r3)
              IN  /\ r1 = (r0 + 90) % 360
                  /\ r4 = r0
                  /\ \A other \in DOMAIN rotation :
                         other # e => rotation'[other] = rotation[other]
                  /\ images' = images]_vars

C9_Witness ==
    /\ lastOp.op = "rotate"
    /\ Len(images) >= 2
    /\ rotation[images[lastOp.index + 1]] = 0
    /\ \E k \in 1..Len(images) : rotation[images[k]] = 270

\* C10: for every image size, rotation and target box the final canvas is no
\* wider and no taller than the box, and its sides are those of the exact
\* aspect-preserving fit of the rotated image (h x w after 90 and 270, w x h
\* after 0 and 180), each rounded to a whole pixel: one side is the box's and
\* the other is within half a pixel of the exact value.
C10_FitsBoxKeepsAspect ==
    (~canvas.pending /\ canvas # NoCanvas) =>
        LET sw == IF canvas.rotation \in {90, 270} THEN canvas.h ELSE canvas.w
            sh == IF canvas.rotation \in {90, 270} THEN canvas.w ELSE canvas.h
            tw == canvas.targetWidthPx
            th == canvas.targetHeightPx
            Abs(v) == IF v < 0 THEN -v ELSE v
        IN  /\ canvas.width <= tw
            /\ canvas.height <= th
            /\ \/ /\ canvas.width = tw
                  /\ Abs(2 * canvas.height * sw - 2 * tw * sh) <= sw
               \/ /\ canvas.height = th
                  /\ Abs(2 * canvas.width * sh - 2 * th * sw) <= sh

C10_Witness ==
    /\ ~canvas.pending
    /\ canvas.rotation = 270
    /\ canvas.w > canvas.h
    /\ canvas.height = canvas.targetHeightPx
    /\ canvas.width < canvas.targetWidthPx
    /\ (canvas.targetHeightPx * canvas.h) % canvas.w # 0

\* C11: the region an image is drawn into on the page (the cellWidthMm x
\* cellHeightMm that generatePDF passes to pdf.addImage) has the width to
\* height ratio of the composed bitmap, for every image size and rotation;
\* the bitmap's sides are whole pixels, so the two ratios may differ by what
\* half a pixel on each side accounts for.
C11_PlacedWithoutDistortion ==
    (~canvas.pending /\ canvas # NoCanvas) =>
        /\ (2 * canvas.width - 1) * cellHeightMm
                <= (2 * canvas.height + 1) * cellWidthMm
        /\ (2 * canvas.width + 1) * cellHeightMm
                >= (2 * canvas.height - 1) * cellWidthMm

\* C12: a run works on one entry at a time, in list order: while it is
\* reading, decoding or composing entry i (0-based) every entry before i has
\* been placed and no later one, the images placed are the list's entries in
\* increasing index, and a saved run has placed them all.
C12_OneEntryAtATime ==
    \A r \in 1..MaxRuns :
        LET me    == run[r]
            items == me.pdf.items
        IN  /\ Suspended(r) => (Len(items) = me.i /\ me.i < Len(me.images))
            /\ me.pc = "saved" => Len(items) = Len(me.images)
            /\ Len(items) <= Len(me.images)
            /\ \A k \in 1..Len(items) : items[k].entry = me.images[k]

C12_Witness ==
    \E r \in 1..MaxRuns :
        /\ run[r].pc = "drawRotatedCanvas"
        /\ run[r].i = 2
        /\ Len(run[r].pdf.items) = 2
        /\ Len(run[r].images) >= 4

\* C13: a run started on a non-empty list never stays suspended forever, also
\* when a file cannot be read or an image cannot be decoded: as long as it has
\* neither saved its document nor ended with an error, an event that resumes
\* it is still to come.
C13_RunEndsWithOutcome ==
    \A r \in 1..MaxRuns :
        (run[r].pc # "idle" /\ Len(run[r].images) > 0) =>
            \/ run[r].pc \in {"saved", "rejected"}
            \/ ENABLED RunStep(r)

\* C14: rotate(index) with index outside 0..n-1 fails with an
\* index-out-of-range error and leaves the collection as it was: same
\* entries, same order, same rotations.
C14_RotateOutOfRangeFails ==
    [][( /\ lastOp'.op = "rotate"
         /\ (lastOp'.index < 0 \/ lastOp'.index >= Len(images)) )
       => /\ thrown' = "IndexOutOfRange"
          /\ images' = images
          /\ rotation' = rotation]_vars

\* How often v occurs in arr.
Count(arr, v) == Cardinality({k \in 1..Len(arr) : arr[k] = v})

\* C16: moveUp(index) and moveDown(index), for any integer index, leave the
\* number of entries and the multiset of entries as they were, and the
\* resulting array holds no undefined element.
C16_MovesPermute ==
    [][lastOp'.op \in {"moveUp", "moveDown"} =>
          /\ Len(images') = Len(images)
          /\ \A v \in 0..Len(rotation) : Count(images', v) = Count(images, v)
          /\ \A k \in 1..Len(images') : images'[k] # Undefined]_vars

\* C15: for every rotation and image size the rotation step paints the
\* image exactly over the intermediate canvas, which is h x w for 90 and 270
\* and w x h for 0 and 180: nothing of the image falls outside it and
\* nothing of it stays blank.
C15_RotationCoversCanvas ==
    (~canvas.pending /\ canvas # NoCanvas) =>
        LET cw == IF canvas.rotation \in {90, 270} THEN canvas.h ELSE canvas.w
            ch == IF canvas.rotation \in {90, 270} THEN canvas.w ELSE canvas.h
        IN  canvas.drawn = [left |-> 0, top |-> 0,
                            right |-> 2 * cw, bottom |-> 2 * ch]

====
